---- MODULE Spec2Model ----
(***************************************************************************)
(* Text-to-SQL assistant: the generate / execute / answer pipeline of the  *)
(* two front-ends, src/gradio_app.py (process_query) and src/app.py (the   *)
(* Streamlit script: main and answer_user_query).                          *)
(*                                                                         *)
(* A Python string is a sequence of one-character strings, so that         *)
(* str.strip, concatenation and truthiness are computed as Python computes *)
(* them.  The language model, the schema provider and the database are     *)
(* the environment: every call draws its outcome (a returned value or a    *)
(* raised exception with its message) from a bounded set.  Each call made  *)
(* to a collaborator while one submission is handled is appended to the    *)
(* request's call log, calls.                                              *)
(*                                                                         *)
(* Display-only session state of the Streamlit script (query_history,      *)
(* selected_query, the schema expander) feeds nothing into the pipeline    *)
(* and is left out; the question typed or selected is drawn from Questions.*)
(***************************************************************************)
EXTENDS Integers, Sequences, FiniteSets, TLC

\* Longest text a model call returns.
MaxLen == 2

VARIABLES
    ui,             \* which program runs: "gradio" or "streamlit"
    db,             \* the database handle: "unset", "handle" or "none"
    llm,            \* the model client:    "unset", "handle" or "none"
    pc,             \* position of the program
    clicked,        \* whether the user pressed Execute for this submission
    question,       \* the question of the submission being handled
    sql_result,     \* answer_user_query: the generated SQL (app.py:103)
    db_result,      \* answer_user_query: result of run_query (app.py:106)
    error,          \* answer_user_query: error of run_query (app.py:106)
    response,       \* main: content of the answer (app.py:190)
    generated_sql,  \* process_query / main: the generated SQL
    raw_results,    \* process_query / main: result of run_query
    sql_error,      \* process_query / main: error of run_query
    exc,            \* message of the exception being propagated
    out,            \* what the user sees: the outputs of the current submission
    calls           \* collaborator calls made for this submission

vars == <<ui, db, llm, pc, clicked, question, sql_result, db_result, error,
          response, generated_sql, raw_results, sql_error, exc, out, calls>>

locals == <<sql_result, db_result, error, response, generated_sql,
            raw_results, sql_error, exc>>

----------------------------------------------------------------------------
(* Python values *)

\* Python's None: a value that is no string.
None == <<"<None>">>

\* The characters str.strip() removes among those the model uses.
Whitespace == {" ", "\n"}

Alphabet == {" ", "a"}

RECURSIVE StringsUpTo(_)
StringsUpTo(n) ==
    IF n = 0 THEN {<<>>}
    ELSE LET shorter == StringsUpTo(n - 1)
         IN  shorter \cup {Append(s, c) : s \in {t \in shorter : Len(t) = n - 1}, c \in Alphabet}

\* bool(v) of a string or None.
Truthy(v) == v # None /\ v # <<>>

\* str(v) of a string or None.
PyStr(v) == IF v = None THEN <<"N", "o", "n", "e">> ELSE v

RECURSIVE lstrip(_)
lstrip(s) == IF s # <<>> /\ Head(s) \in Whitespace THEN lstrip(Tail(s)) ELSE s

RECURSIVE rstrip(_)
rstrip(s) ==
    IF s # <<>> /\ s[Len(s)] \in Whitespace THEN rstrip(SubSeq(s, 1, Len(s) - 1)) ELSE s

\* str.strip()
strip(s) == rstrip(lstrip(s))

----------------------------------------------------------------------------
(* The environment *)

\* What the user may type or select.
Questions == {<<>>, <<" ">>, <<" ", "\n">>, <<"a">>, <<" ", "a">>}

\* Texts of a model response (response.content).
Contents == StringsUpTo(MaxLen)

\* db.run's return value: "" for an empty result set, else the rows' text.
Results == {<<>>, <<"r">>}

\* str(e) of a raised exception; an exception may carry no message.
ExcMessages == {<<>>, <<"e">>}

SCHEMA == <<"T">>

Returned(S) == {[raised |-> FALSE, val |-> v] : v \in S}
Raised == {[raised |-> TRUE, val |-> m] : m \in ExcMessages}

SchemaOutcomes == Returned({SCHEMA}) \cup Raised
LlmOutcomes == Returned(Contents) \cup Raised
DbRunOutcomes == Returned(Results) \cup Raised

\* One call to a collaborator: op is "schema", "llm" or "db_run"; step is the
\* pipeline step that made it ("sql", "exec", "answer"); query and response
\* are the SQL and the execution result handed to it; ok and val its outcome.
Call(op, step, query, resp, o) ==
    [op |-> op, step |-> step, query |-> query, response |-> resp,
     ok |-> ~o.raised, val |-> o.val]

----------------------------------------------------------------------------
(* Literals *)

SQL_ERROR == <<"S", "Q", "L", " ", "E", "r", "r", "o", "r", ":", " ">>
ERROR == <<"E", "r", "r", "o", "r", ":", " ">>
PLEASE_ENTER == <<"P", "l", "e", "a", "s", "e", " ", "e", "n", "t", "e", "r", " ", "a", " ", "q", "u", "e", "s", "t", "i", "o", "n", ".">>
NO_RESULTS == <<"N", "o", " ", "r", "e", "s", "u", "l", "t", "s", " ", "r", "e", "t", "u", "r", "n", "e", "d">>
NOT_CONNECTED == <<"D", "a", "t", "a", "b", "a", "s", "e", " ", "n", "o", "t", " ", "c", "o", "n", "n", "e", "c", "t", "e", "d">>
FAILED_TO_INITIALIZE == <<"F", "a", "i", "l", "e", "d", " ", "t", "o", " ", "i", "n", "i", "t", "i", "a", "l", "i", "z", "e", " ", "a", "p", "p", "l", "i", "c", "a", "t", "i", "o", "n", ".", " ", "P", "l", "e", "a", "s", "e", " ", "c", "h", "e", "c", "k", " ", "y", "o", "u", "r", " ", "c", "o", "n", "f", "i", "g", "u", "r", "a", "t", "i", "o", "n", ".">>
EXECUTED_OK == <<"Q", "u", "e", "r", "y", " ", "e", "x", "e", "c", "u", "t", "e", "d", " ", "s", "u", "c", "c", "e", "s", "s", "f", "u", "l", "l", "y", "!">>
NO_INVOKE == <<"'", "N", "o", "n", "e", "T", "y", "p", "e", "'", " ", "o", "b", "j", "e", "c", "t", " ", "h", "a", "s", " ", "n", "o", " ", "a", "t", "t", "r", "i", "b", "u", "t", "e", " ", "'", "i", "n", "v", "o", "k", "e", "'">>

\* What the user sees: the three output boxes (answer, sql, raw), the
\* st.error messages and the st.success banner.
Shown(answer, sql, raw, errors, success) ==
    [answer |-> answer, sql |-> sql, raw |-> raw, errors |-> errors, success |-> success]

Blank == Shown(None, None, None, <<>>, None)

NoLocals ==
    /\ sql_result' = None /\ db_result' = None /\ error' = None /\ response' = None
    /\ generated_sql' = None /\ raw_results' = None /\ sql_error' = None /\ exc' = None

----------------------------------------------------------------------------
(* src/gradio_app.py *)

\* run_query without its try/except: the database's exception leaves it.
gr_run_query_unguarded(o) ==
    IF o.raised
    THEN [result |-> None, error |-> None, exc |-> o.val]
    ELSE [result |-> o.val, error |-> None, exc |-> None]

\* run_query's return: (result, None) or (None, str(e)); exc is the message
\* of an exception leaving the function, None when it returns.
gr_run_query(o) ==
    IF o.raised
    THEN [result |-> None, error |-> o.val, exc |-> None]
    ELSE [result |-> o.val, error |-> None, exc |-> None]

\* generate_sql returning response.content as the model sent it.
gr_generate_sql_unstripped(content) == content

\* generate_sql's return: response.content.strip()
gr_generate_sql(content) == strip(content)

\* `not question`: the emptiness test without the strip.
gr_is_blank_unstripped(q) == ~Truthy(q)

\* `not question.strip()`
gr_is_blank(q) == ~Truthy(strip(q))

\* return "Please enter a question.", "", ""
gr_return_blank == Shown(PLEASE_ENTER, <<>>, <<>>, <<>>, None)

\* The execution-error return carrying str(raw_results) as its third value.
gr_return_sql_error_with_raw(e, sql) == Shown(SQL_ERROR \o e, sql, PyStr(None), <<>>, None)

\* return f"SQL Error: {sql_error}", generated_sql, ""
gr_return_sql_error(e, sql) == Shown(SQL_ERROR \o e, sql, <<>>, <<>>, None)

\* return natural_response.content, generated_sql, str(raw_results)
gr_return_answer(content, sql, raw) == Shown(content, sql, PyStr(raw), <<>>, None)

\* return f"Error: {str(e)}", "", ""
gr_return_except(e) == Shown(ERROR \o e, <<>>, <<>>, <<>>, None)

\* Module initialisation: an exception at import ends the process before the
\* interface exists.
GrBoot ==
    /\ ui = "gradio" /\ pc = "boot"
    /\ \E db_ok \in BOOLEAN, llm_ok \in BOOLEAN :
         /\ db' = IF db_ok THEN "handle" ELSE "unset"
         /\ llm' = IF db_ok /\ llm_ok THEN "handle" ELSE "unset"
         /\ pc' = IF db_ok /\ llm_ok THEN "idle" ELSE "crashed"
    /\ UNCHANGED <<ui, clicked, question, locals, out, calls>>

\* submit_btn.click / question_input.submit: process_query(question) begins.
GrSubmit ==
    /\ ui = "gradio" /\ pc = "idle"
    /\ \E q \in Questions :
         /\ question' = q
         /\ IF gr_is_blank(q)
            THEN out' = gr_return_blank /\ pc' = "idle"
            ELSE out' = Blank /\ pc' = "g_generate_sql"
    /\ clicked' = TRUE
    /\ calls' = <<>>
    /\ NoLocals
    /\ UNCHANGED <<ui, db, llm>>

\* sql_generator({"question": question}): get_schema(), llm.invoke, strip.
GrGenerateSql ==
    /\ ui = "gradio" /\ pc = "g_generate_sql"
    /\ \E so \in SchemaOutcomes, lo \in LlmOutcomes :
         LET sc == Call("schema", "sql", None, None, so)
             lc == Call("llm", "sql", None, None, lo)
         IN  IF so.raised
             THEN /\ calls' = Append(calls, sc)
                  /\ exc' = so.val /\ pc' = "g_except"
                  /\ UNCHANGED generated_sql
             ELSE IF lo.raised
             THEN /\ calls' = calls \o <<sc, lc>>
                  /\ exc' = lo.val /\ pc' = "g_except"
                  /\ UNCHANGED generated_sql
             ELSE /\ calls' = calls \o <<sc, lc>>
                  /\ generated_sql' = gr_generate_sql(lo.val)
                  /\ pc' = "g_run_query"
                  /\ UNCHANGED exc
    /\ UNCHANGED <<ui, db, llm, clicked, question, sql_result, db_result, error,
                   response, raw_results, sql_error, out>>

\* raw_results, sql_error = run_query(generated_sql)
GrRunQuery ==
    /\ ui = "gradio" /\ pc = "g_run_query"
    /\ \E o \in DbRunOutcomes :
         LET r == gr_run_query(o)
         IN  /\ calls' = Append(calls, Call("db_run", "exec", generated_sql, None, o))
             /\ IF r.exc # None
                THEN /\ exc' = r.exc /\ pc' = "g_except"
                     /\ UNCHANGED <<raw_results, sql_error>>
                ELSE /\ raw_results' = r.result /\ sql_error' = r.error
                     /\ pc' = "g_check"
                     /\ UNCHANGED exc
    /\ UNCHANGED <<ui, db, llm, clicked, question, sql_result, db_result, error,
                   response, generated_sql, out>>

\* if sql_error: return f"SQL Error: {sql_error}", generated_sql, ""
GrCheck ==
    /\ ui = "gradio" /\ pc = "g_check"
    /\ IF Truthy(sql_error)
       THEN out' = gr_return_sql_error(sql_error, generated_sql) /\ pc' = "idle"
       ELSE out' = out /\ pc' = "g_answer"
    /\ UNCHANGED <<ui, db, llm, clicked, question, locals, calls>>

\* The answer prompt (get_schema() again), llm.invoke, and the return.
GrAnswer ==
    /\ ui = "gradio" /\ pc = "g_answer"
    /\ \E so \in SchemaOutcomes, lo \in LlmOutcomes :
         LET sc == Call("schema", "answer", None, None, so)
             lc == Call("llm", "answer", generated_sql, raw_results, lo)
         IN  IF so.raised
             THEN /\ calls' = Append(calls, sc)
                  /\ exc' = so.val /\ pc' = "g_except"
                  /\ UNCHANGED out
             ELSE IF lo.raised
             THEN /\ calls' = calls \o <<sc, lc>>
                  /\ exc' = lo.val /\ pc' = "g_except"
                  /\ UNCHANGED out
             ELSE /\ calls' = calls \o <<sc, lc>>
                  /\ out' = gr_return_answer(lo.val, generated_sql, raw_results)
                  /\ pc' = "idle"
                  /\ UNCHANGED exc
    /\ UNCHANGED <<ui, db, llm, clicked, question, sql_result, db_result, error,
                   response, generated_sql, raw_results, sql_error>>

\* except Exception as e: return f"Error: {str(e)}", "", ""
GrExcept ==
    /\ ui = "gradio" /\ pc = "g_except"
    /\ out' = gr_return_except(exc)
    /\ pc' = "idle"
    /\ UNCHANGED <<ui, db, llm, clicked, question, locals, calls>>

----------------------------------------------------------------------------
(* src/app.py *)

\* get_schema(db): db.get_table_info() with a handle, a fixed text without;
\* called says whether the database was asked.
st_get_schema(d, o) ==
    IF d = "handle"
    THEN [called |-> TRUE, raised |-> o.raised, val |-> o.val]
    ELSE [called |-> FALSE, raised |-> FALSE, val |-> NOT_CONNECTED]

\* run_query(db, query): (result, None), (None, str(e)), or
\* (None, "Database not connected") without a handle.
st_run_query(d, o) ==
    IF d = "handle"
    THEN IF o.raised
         THEN [called |-> TRUE, result |-> None, error |-> o.val, exc |-> None]
         ELSE [called |-> TRUE, result |-> o.val, error |-> None, exc |-> None]
    ELSE [called |-> FALSE, result |-> None, error |-> NOT_CONNECTED, exc |-> None]

\* llm.invoke(formatted_prompt): without a client the attribute lookup raises.
st_llm_invoke(l, o) ==
    IF l = "handle"
    THEN [called |-> TRUE, raised |-> o.raised, val |-> o.val]
    ELSE [called |-> FALSE, raised |-> TRUE, val |-> NO_INVOKE]

\* generate_sql's return: response.content.strip()
st_generate_sql(content) == strip(content)

\* `if not db and not llm:`: the guard with the wrong connective.
main_setup_failed_both(d, l) == d # "handle" /\ l # "handle"

\* `if not db or not llm:` of main
main_setup_failed(d, l) == d # "handle" \/ l # "handle"

\* st.button(..., disabled=not query_input.strip()) and `if query_input.strip():`
main_execute(q, click) ==
    LET disabled == ~Truthy(strip(q))
    IN  (click /\ ~disabled) /\ Truthy(strip(q))

\* raise Exception(f"SQL Error: {error}")
st_sql_error(e) == SQL_ERROR \o e

\* st.error(f"Error: {str(e)}")
main_show_error(e) == Shown(None, None, None, <<ERROR \o e>>, None)

\* st.success, st.write(response.content), st.code(generated_sql) and the raw
\* results, or "No results returned".
main_show_results(content, sql, raw) ==
    Shown(content, sql, IF Truthy(raw) THEN raw ELSE NO_RESULTS, <<>>, EXECUTED_OK)

\* The calls a generation step logs: the schema lookup, then the model call
\* unless the lookup raised.
GenCalls(step, query, resp, s, l, so, lo) ==
    (IF s.called THEN <<Call("schema", step, None, None, so)>> ELSE <<>>)
    \o (IF ~s.raised /\ l.called THEN <<Call("llm", step, query, resp, lo)>> ELSE <<>>)

\* The first run of the script: init_database() and get_llm() are evaluated
\* once and cached (st.cache_resource); a failure is cached as None.
StBoot ==
    /\ ui = "streamlit" /\ pc = "boot"
    /\ \E db_ok \in BOOLEAN, llm_ok \in BOOLEAN :
         /\ db' = IF db_ok THEN "handle" ELSE "none"
         /\ llm' = IF llm_ok THEN "handle" ELSE "none"
         /\ out' = IF main_setup_failed(db', llm')
                   THEN Shown(None, None, None, <<FAILED_TO_INITIALIZE>>, None)
                   ELSE Blank
    /\ pc' = "idle"
    /\ UNCHANGED <<ui, clicked, question, locals, calls>>

\* A rerun of the script on a user interaction: main() up to the Execute
\* button, with the question typed or selected and whether Execute was pressed.
StRerun ==
    /\ ui = "streamlit" /\ pc = "idle"
    /\ \E q \in Questions, click \in BOOLEAN :
         /\ question' = q
         /\ clicked' = click
         /\ IF main_setup_failed(db, llm)
            THEN /\ out' = Shown(None, None, None, <<FAILED_TO_INITIALIZE>>, None)
                 /\ pc' = "idle"
            ELSE /\ out' = Blank
                 /\ pc' = IF main_execute(q, click) THEN "s_generate_sql" ELSE "idle"
    /\ calls' = <<>>
    /\ NoLocals
    /\ UNCHANGED <<ui, db, llm>>

\* answer_user_query: sql_result = sql_generator({"question": query})
StGenerateSql ==
    /\ ui = "streamlit" /\ pc = "s_generate_sql"
    /\ \E so \in SchemaOutcomes, lo \in LlmOutcomes :
         LET s == st_get_schema(db, so)
             l == st_llm_invoke(llm, lo)
         IN  /\ calls' = calls \o GenCalls("sql", None, None, s, l, so, lo)
             /\ IF s.raised
                THEN exc' = s.val /\ pc' = "s_except" /\ UNCHANGED sql_result
                ELSE IF l.raised
                THEN exc' = l.val /\ pc' = "s_except" /\ UNCHANGED sql_result
                ELSE sql_result' = st_generate_sql(l.val) /\ pc' = "s_run_query"
                     /\ UNCHANGED exc
    /\ UNCHANGED <<ui, db, llm, clicked, question, db_result, error, response,
                   generated_sql, raw_results, sql_error, out>>

\* answer_user_query: db_result, error = run_query(db, sql_result)
StRunQuery ==
    /\ ui = "streamlit" /\ pc = "s_run_query"
    /\ \E o \in DbRunOutcomes :
         LET r == st_run_query(db, o)
         IN  /\ calls' = IF r.called
                         THEN Append(calls, Call("db_run", "exec", sql_result, None, o))
                         ELSE calls
             /\ IF r.exc # None
                THEN exc' = r.exc /\ pc' = "s_except" /\ UNCHANGED <<db_result, error>>
                ELSE db_result' = r.result /\ error' = r.error /\ pc' = "s_check"
                     /\ UNCHANGED exc
    /\ UNCHANGED <<ui, db, llm, clicked, question, sql_result, response,
                   generated_sql, raw_results, sql_error, out>>

\* answer_user_query: if error: raise Exception(f"SQL Error: {error}")
StCheck ==
    /\ ui = "streamlit" /\ pc = "s_check"
    /\ IF Truthy(error)
       THEN exc' = st_sql_error(error) /\ pc' = "s_except"
       ELSE exc' = exc /\ pc' = "s_answer"
    /\ UNCHANGED <<ui, db, llm, clicked, question, sql_result, db_result, error,
                   response, generated_sql, raw_results, sql_error, out, calls>>

\* answer_user_query: the answer prompt (get_schema(db) again), llm.invoke;
\* main keeps the response.
StAnswer ==
    /\ ui = "streamlit" /\ pc = "s_answer"
    /\ \E so \in SchemaOutcomes, lo \in LlmOutcomes :
         LET s == st_get_schema(db, so)
             l == st_llm_invoke(llm, lo)
         IN  /\ calls' = calls \o GenCalls("answer", sql_result, db_result, s, l, so, lo)
             /\ IF s.raised
                THEN exc' = s.val /\ pc' = "s_except" /\ UNCHANGED response
                ELSE IF l.raised
                THEN exc' = l.val /\ pc' = "s_except" /\ UNCHANGED response
                ELSE response' = l.val /\ pc' = "s_generate_sql_display"
                     /\ UNCHANGED exc
    /\ UNCHANGED <<ui, db, llm, clicked, question, sql_result, db_result, error,
                   generated_sql, raw_results, sql_error, out>>

\* main: generated_sql = sql_generator({"question": query_input}), the SQL
\* query for display.
StGenerateSqlDisplay ==
    /\ ui = "streamlit" /\ pc = "s_generate_sql_display"
    /\ \E so \in SchemaOutcomes, lo \in LlmOutcomes :
         LET s == st_get_schema(db, so)
             l == st_llm_invoke(llm, lo)
         IN  /\ calls' = calls \o GenCalls("sql", None, None, s, l, so, lo)
             /\ IF s.raised
                THEN exc' = s.val /\ pc' = "s_except" /\ UNCHANGED generated_sql
                ELSE IF l.raised
                THEN exc' = l.val /\ pc' = "s_except" /\ UNCHANGED generated_sql
                ELSE generated_sql' = st_generate_sql(l.val) /\ pc' = "s_run_query_display"
                     /\ UNCHANGED exc
    /\ UNCHANGED <<ui, db, llm, clicked, question, sql_result, db_result, error,
                   response, raw_results, sql_error, out>>

\* main: raw_results, sql_error = run_query(db, generated_sql)
StRunQueryDisplay ==
    /\ ui = "streamlit" /\ pc = "s_run_query_display"
    /\ \E o \in DbRunOutcomes :
         LET r == st_run_query(db, o)
         IN  /\ calls' = IF r.called
                         THEN Append(calls, Call("db_run", "exec", generated_sql, None, o))
                         ELSE calls
             /\ IF r.exc # None
                THEN exc' = r.exc /\ pc' = "s_except" /\ UNCHANGED <<raw_results, sql_error>>
                ELSE raw_results' = r.result /\ sql_error' = r.error /\ pc' = "s_display"
                     /\ UNCHANGED exc
    /\ UNCHANGED <<ui, db, llm, clicked, question, sql_result, db_result, error,
                   response, generated_sql, out>>

\* main: the results are displayed.
StDisplay ==
    /\ ui = "streamlit" /\ pc = "s_display"
    /\ out' = main_show_results(response, generated_sql, raw_results)
    /\ pc' = "idle"
    /\ UNCHANGED <<ui, db, llm, clicked, question, locals, calls>>

\* main: except Exception as e: st.error(f"Error: {str(e)}")
StExcept ==
    /\ ui = "streamlit" /\ pc = "s_except"
    /\ out' = main_show_error(exc)
    /\ pc' = "idle"
    /\ UNCHANGED <<ui, db, llm, clicked, question, locals, calls>>

----------------------------------------------------------------------------

Init ==
    /\ ui \in {"gradio", "streamlit"}
    /\ db = "unset" /\ llm = "unset"
    /\ pc = "boot"
    /\ clicked = FALSE
    /\ question = None
    /\ sql_result = None /\ db_result = None /\ error = None /\ response = None
    /\ generated_sql = None /\ raw_results = None /\ sql_error = None /\ exc = None
    /\ out = Blank
    /\ calls = <<>>

Next ==
    \/ GrBoot
    \/ GrSubmit
    \/ GrGenerateSql
    \/ GrRunQuery
    \/ GrCheck
    \/ GrAnswer
    \/ GrExcept
    \/ StBoot
    \/ StRerun
    \/ StGenerateSql
    \/ StRunQuery
    \/ StCheck
    \/ StAnswer
    \/ StGenerateSqlDisplay
    \/ StRunQueryDisplay
    \/ StDisplay
    \/ StExcept

Spec == Init /\ [][Next]_vars

\* Every exception the collaborators raise carries a message.
FailuresCarryMessages == \A i \in DOMAIN calls : ~calls[i].ok => calls[i].val # <<>>

\* The program with collaborators whose exceptions all carry a message.
NextMessages ==
    \/ GrBoot /\ FailuresCarryMessages'
    \/ GrSubmit /\ FailuresCarryMessages'
    \/ GrGenerateSql /\ FailuresCarryMessages'
    \/ GrRunQuery /\ FailuresCarryMessages'
    \/ GrCheck /\ FailuresCarryMessages'
    \/ GrAnswer /\ FailuresCarryMessages'
    \/ GrExcept /\ FailuresCarryMessages'
    \/ StBoot /\ FailuresCarryMessages'
    \/ StRerun /\ FailuresCarryMessages'
    \/ StGenerateSql /\ FailuresCarryMessages'
    \/ StRunQuery /\ FailuresCarryMessages'
    \/ StCheck /\ FailuresCarryMessages'
    \/ StAnswer /\ FailuresCarryMessages'
    \/ StGenerateSqlDisplay /\ FailuresCarryMessages'
    \/ StRunQueryDisplay /\ FailuresCarryMessages'
    \/ StDisplay /\ FailuresCarryMessages'
    \/ StExcept /\ FailuresCarryMessages'

SpecMessages == Init /\ [][NextMessages]_vars

----------------------------------------------------------------------------
(* Properties *)

Idx == DOMAIN calls

IsPrefix(p, s) == Len(p) <= Len(s) /\ SubSeq(s, 1, Len(p)) = p

IsDbRun(i) == calls[i].op = "db_run"

IsLlm(i, step) == calls[i].op = "llm" /\ calls[i].step = step

DbRuns == {i \in Idx : IsDbRun(i)}

\* The first execution of the submission: the one process_query and
\* answer_user_query make.
FirstDbRun(i) == IsDbRun(i) /\ \A j \in Idx : j < i => ~IsDbRun(j)

\* A submission with a non-blank question has been handled to its end.
Handled == pc = "idle" /\ question # None /\ calls # <<>>

IsErrorDescription(a) == a # None /\ (IsPrefix(ERROR, a) \/ IsPrefix(SQL_ERROR, a))

\* An error message is on the screen.
ErrorVisible ==
    IF ui = "gradio" THEN IsErrorDescription(out.answer) ELSE out.errors # <<>>

C2_ExecutionFailureAborts ==
    \A i \in Idx :
        (FirstDbRun(i) /\ ~calls[i].ok) =>
            /\ \A j \in Idx : j > i => ~IsLlm(j, "answer")
            /\ (ui = "gradio" /\ pc = "idle") => out.answer = SQL_ERROR \o calls[i].val
            /\ (ui = "streamlit" /\ pc = "idle") =>
                   out.errors = <<ERROR \o SQL_ERROR \o calls[i].val>>

\* C3: for an empty or whitespace-only question no collaborator is called in
\* either front-end, and process_query returns ("Please enter a question.",
\* "", "").
C3_BlankQuestionShortCircuits ==
    (question # None /\ strip(question) = <<>>) =>
        /\ calls = <<>>
        /\ pc = "idle"
        /\ ui = "gradio" => out = Shown(PLEASE_ENTER, <<>>, <<>>, <<>>, None)

\* A whitespace-only question was submitted to process_query.
C3_Witness ==
    /\ ui = "gradio" /\ clicked
    /\ question = <<" ", "\n">>
    /\ out.answer = PLEASE_ENTER

\* C4 as stated: while one submission is handled the execution step runs at
\* most once, in either front-end.
C4_ExecutedAtMostOnce == Cardinality(DbRuns) <= 1

\* C5: every string handed to db.run is the latest SQL-generation response of
\* the model with its leading and trailing whitespace removed; a non-empty one
\* neither starts nor ends with whitespace.
C5_TrimInvariant ==
    \A i \in DbRuns :
        LET q == calls[i].query
            gens == {j \in Idx : j < i /\ IsLlm(j, "sql")}
        IN  /\ q # <<>> => (q[1] \notin Whitespace /\ q[Len(q)] \notin Whitespace)
            /\ gens # {}
            /\ LET j == CHOOSE k \in gens : \A m \in gens : m <= k
               IN  /\ calls[j].ok
                   /\ \E n \in 0..Len(calls[j].val) :
                        \E m \in n..Len(calls[j].val) :
                          /\ q = SubSeq(calls[j].val, n + 1, m)
                          /\ \A k \in (1..n) \cup ((m + 1)..Len(calls[j].val)) :
                               calls[j].val[k] \in Whitespace

\* A response with whitespace around a non-empty statement was executed.
C5_Witness ==
    \E i \in DbRuns : \E j \in Idx :
        /\ j < i /\ IsLlm(j, "sql") /\ calls[j].ok
        /\ calls[j].val = <<" ", "a">>
        /\ calls[i].query = <<"a">>

\* C6 as stated: when a schema lookup or model call of SQL generation fails,
\* the database execution step is never invoked for that submission and an
\* error message is shown.
C6_GenerationFailureAborts ==
    \A i \in Idx :
        (calls[i].step = "sql" /\ ~calls[i].ok) =>
            /\ DbRuns = {}
            /\ pc = "idle" => ErrorVisible

\* The return of run_query (result, err), set against the db.run call c.
Tagged(c, result, err) ==
    /\ c.op = "db_run"
    /\ c.ok => (result = c.val /\ err = None)
    /\ ~c.ok => (result = None /\ err = c.val)
    /\ ~(result # None /\ err # None)

\* C7: run_query returns (result, None) when db.run returns, an empty result
\* set included, and (None, str(e)) when it raises, never both; no exception
\* of db.run leaves run_query.
C7_RunQueryTagged ==
    /\ pc = "g_check" => Tagged(calls[Len(calls)], raw_results, sql_error)
    /\ pc = "s_check" => Tagged(calls[Len(calls)], db_result, error)
    /\ pc = "s_display" => Tagged(calls[Len(calls)], raw_results, sql_error)
    /\ pc = "g_except" => ~IsDbRun(Len(calls))
    /\ (pc = "s_except" /\ IsDbRun(Len(calls))) =>
           (Truthy(error) /\ exc = SQL_ERROR \o error)

\* run_query returned an empty result set: a success, with no error.
C7_Witness ==
    /\ pc = "g_check"
    /\ calls[Len(calls)].ok
    /\ raw_results = <<>> /\ sql_error = None

\* C8 as stated: when a collaborator call of a submission failed, the output
\* shows an error message, and shows neither the success banner nor "No
\* results returned".
C8_NoErrorSwallowed ==
    (Handled /\ \E i \in Idx : ~calls[i].ok) =>
        /\ ErrorVisible
        /\ out.success = None
        /\ out.raw # NO_RESULTS

\* A collaborator (model or database) was called.
PipelineInvoked == \E i \in Idx : calls[i].op \in {"llm", "db_run"}

\* C9: once the database handle or the model client failed to initialise, no
\* model call and no SQL execution is ever made, whatever the user does.
C9_SetupFailureTerminal ==
    (pc # "boot" /\ (db # "handle" \/ llm # "handle")) =>
        /\ ~PipelineInvoked
        /\ pc \in {"idle", "crashed"}

\* With the database handle missing the user pressed Execute on a question.
C9_Witness ==
    /\ ui = "streamlit" /\ db = "none" /\ llm = "handle"
    /\ pc = "idle" /\ clicked /\ Truthy(strip(question))
    /\ out.errors = <<FAILED_TO_INITIALIZE>>

\* How each front-end shows an execution result.
Rendered(r) ==
    IF ui = "gradio" THEN PyStr(r) ELSE IF Truthy(r) THEN r ELSE NO_RESULTS

\* C10 as stated: the SQL and the raw result shown with an answer are the SQL
\* that was executed and the result that was handed to the model call that
\* produced the answer.
C10_DisplayedTripleFromOneRun ==
    (Handled /\ out.answer # None /\ \E i \in Idx : IsLlm(i, "answer") /\ calls[i].ok) =>
        \E i \in Idx :
            /\ IsLlm(i, "answer") /\ calls[i].ok
            /\ out.answer = calls[i].val
            /\ out.sql = calls[i].query
            /\ out.raw = Rendered(calls[i].response)

====
